---- MODULE Spec2Model ----
(***************************************************************************)
(* Season data store accessor (src/src/statcast_analysis/data_loader.py),  *)
(* the collector that writes the season files it reads                     *)
(* (src/collector/collect_statcast.py) and the derived metrics library     *)
(* (src/src/statcast_analysis/metrics.py).                                 *)
(*                                                                         *)
(* The data directory is the state.  Every loader call is one action: it   *)
(* reads the directory and leaves its outcome (a table or the exception it *)
(* raised) in `last`.                                                      *)
(***************************************************************************)
EXTENDS Integers, Sequences, FiniteSets, TLC

VARIABLES
    disk,       \* data/raw: file name -> the table stored in that parquet file
    last,       \* the most recent call: operation, arguments, outcome
    earlier     \* history of one watched (year, columns) pair of load_season

vars == <<disk, last, earlier>>

----------------------------------------------------------------------------
(* Bounds of the model *)

\* most rows one fetch returns
MaxRows == 2
\* exit velocities and launch angles are counted in 1/Scale mph and degree,
\* and the arithmetic on them is exact
Scale == 10
\* the exit velocities tried run from EvBelow mph under the 98 mph gate to
\* EvAbove mph over it
EvBelow == 1
EvAbove == 21
\* the launch angles tried run from LaMargin degrees under the 8 degree
\* floor to LaMargin degrees over the 50 degree ceiling
LaMargin == 5

\* most rows of a frame the rate metrics are called with
MaxPitches == 3

\* most rows of a frame the plate appearance functions are called with
MaxPaRows == 3

\* most rows of a table the metrics are called on one after another, and
\* most calls made on it
MaxTableRows == 2
MaxCalls == 2

----------------------------------------------------------------------------
(* Program constants *)

\* AVAILABLE_SEASONS = list(range(2015, 2026))
RangeFirst == 2015
RangeStop == 2026
AVAILABLE_SEASONS == RangeFirst .. (RangeStop - 1)

\* keys of SEASON_DATES
SEASON_DATES == {2025, 2024, 2023, 2022, 2021, 2020, 2019, 2018, 2017, 2016, 2015}

Min(S) == CHOOSE x \in S : \A y \in S : x <= y
Max(S) == CHOOSE x \in S : \A y \in S : x >= y

----------------------------------------------------------------------------
(* Values *)

\* a missing cell (NaN / None); a present cell v is <<v>>
NaN == << >>
Cell(v) == <<v>>

\* Optional[List[str]]: None, or a list of column names
None == [given |-> FALSE, names |-> {}]
List(names) == [given |-> TRUE, names |-> names]
\* Python truth value of an Optional[List[str]]: None and [] are false
Truthy(columns) == columns.given /\ columns.names # {}

\* DATA_RAW / f"statcast_{year}.parquet"
SeasonFile(year) == <<"statcast_", year, ".parquet">>

exists(d, filepath) == filepath \in DOMAIN d

----------------------------------------------------------------------------
(* Inputs *)

PitchTypes == {"FF", "SL"}
NarrowSchema == {"game_year", "pitch_type"}
WideSchema == {"game_year", "pitch_type", "bat_speed"}
Schemas == {NarrowSchema, WideSchema}

RowOf(schema, year, pt) ==
    [c \in schema |-> IF c = "game_year" THEN Cell(year)
                      ELSE IF c = "pitch_type" THEN Cell(pt)
                      ELSE NaN]

PitchSeqs == UNION {[1..n -> PitchTypes] : n \in 1..MaxRows}

\* what statcast(start_dt, end_dt) can return for a season
FetchResults(year) ==
    {[columns |-> s, rows |-> [i \in 1..Len(p) |-> RowOf(s, year, p[i])]] :
        s \in Schemas, p \in PitchSeqs}

\* years the calls are made with: the one before the supported set, the
\* first supported one and the last (the seasons between them are never
\* collected here, so every range over them has missing years)
YearArgs == {RangeFirst - 1, RangeFirst, RangeStop - 1}

ColumnArgs == {None} \cup {List(s) : s \in SUBSET {"pitch_type", "bat_speed"}}

Responses == {"y", "Y", ""}

\* str.lower() on the answers above
Lower(s) == IF s = "Y" THEN "y" ELSE s

----------------------------------------------------------------------------
(* Outcomes *)

Returned(t) == [kind |-> "table", columns |-> t.columns, rows |-> t.rows]
Raised(k, m) == [kind |-> k, msg |-> m]

\* pd.read_parquet(filepath, columns=columns): the stored table, or its
\* projection on `columns`; a column the file does not have is an error of
\* the parquet engine (not a FileNotFoundError)
read_parquet(d, filepath, columns) ==
    LET t == d[filepath] IN
    IF ~columns.given THEN Returned(t)
    ELSE IF ~(columns.names \subseteq t.columns)
         THEN Raised("ArrowInvalid",
                     [head |-> "No match for FieldRef.Name",
                      filepath |-> filepath,
                      fields |-> columns.names \ t.columns])
         ELSE Returned([columns |-> columns.names,
                        rows |-> [i \in 1..Len(t.rows) |->
                                    [c \in columns.names |-> t.rows[i][c]]]])

\* a missing file read as an empty table
load_season_empty(d, year, columns) ==
    IF ~exists(d, SeasonFile(year))
    THEN Returned([columns |-> {}, rows |-> << >>])
    ELSE IF Truthy(columns) THEN read_parquet(d, SeasonFile(year), columns)
         ELSE read_parquet(d, SeasonFile(year), None)

load_season(d, year, columns) ==
    LET filepath == SeasonFile(year) IN
    IF ~exists(d, filepath)
    THEN Raised("FileNotFoundError",
                [head |-> "Data file not found: ",
                 filepath |-> filepath,
                 run |-> "python collector/collect_statcast.py --year ",
                 args |-> <<year>>])
    ELSE IF Truthy(columns) THEN read_parquet(d, filepath, columns)
         ELSE read_parquet(d, filepath, None)

\* pd.concat(dfs, ignore_index=True): the rows of the frames one after the
\* other, over the union of their columns, NaN where a frame lacks a column
RECURSIVE AllColumns(_)
AllColumns(dfs) ==
    IF dfs = << >> THEN {} ELSE Head(dfs).columns \cup AllColumns(Tail(dfs))

Reindexed(row, columns) ==
    [c \in columns |-> IF c \in DOMAIN row THEN row[c] ELSE NaN]

RECURSIVE StackRows(_, _)
StackRows(dfs, columns) ==
    IF dfs = << >> THEN << >>
    ELSE [i \in 1..Len(Head(dfs).rows) |-> Reindexed(Head(dfs).rows[i], columns)]
         \o StackRows(Tail(dfs), columns)

\* the frames stacked last one first
concat_reversed(dfs) ==
    [columns |-> AllColumns(dfs),
     rows |-> StackRows([i \in 1..Len(dfs) |-> dfs[Len(dfs) + 1 - i]], AllColumns(dfs))]

concat(dfs) ==
    [columns |-> AllColumns(dfs), rows |-> StackRows(dfs, AllColumns(dfs))]

\* no try/except around load_season: the first missing year ends the call
RECURSIVE LoadLoop_uncaught(_, _, _, _, _)
LoadLoop_uncaught(d, year, end_year, columns, dfs) ==
    IF year > end_year THEN [dfs |-> dfs, raised |-> FALSE]
    ELSE LET df == load_season(d, year, columns) IN
         IF df.kind = "table"
         THEN LoadLoop_uncaught(d, year + 1, end_year, columns, Append(dfs, df))
         ELSE [dfs |-> dfs, raised |-> TRUE, exc |-> df]

\* `break` where the code has `continue`: a missing year ends the loop
RECURSIVE LoadLoop_break(_, _, _, _, _)
LoadLoop_break(d, year, end_year, columns, dfs) ==
    IF year > end_year THEN [dfs |-> dfs, raised |-> FALSE]
    ELSE LET df == load_season(d, year, columns) IN
         IF df.kind = "table"
         THEN LoadLoop_break(d, year + 1, end_year, columns, Append(dfs, df))
         ELSE IF df.kind = "FileNotFoundError"
         THEN [dfs |-> dfs, raised |-> FALSE]
         ELSE [dfs |-> dfs, raised |-> TRUE, exc |-> df]

\* `except Exception`: every failed load is skipped
RECURSIVE LoadLoop_catchall(_, _, _, _, _)
LoadLoop_catchall(d, year, end_year, columns, dfs) ==
    IF year > end_year THEN [dfs |-> dfs, raised |-> FALSE]
    ELSE LET df == load_season(d, year, columns) IN
         IF df.kind = "table"
         THEN LoadLoop_catchall(d, year + 1, end_year, columns, Append(dfs, df))
         ELSE LoadLoop_catchall(d, year + 1, end_year, columns, dfs)

\* the for loop of load_seasons from `year` on, `dfs` being the frames
\* appended so far: a FileNotFoundError skips the year, any other exception
\* leaves the loop and the function
RECURSIVE LoadLoop(_, _, _, _, _)
LoadLoop(d, year, end_year, columns, dfs) ==
    IF year > end_year THEN [dfs |-> dfs, raised |-> FALSE]
    ELSE LET df == load_season(d, year, columns) IN
         IF df.kind = "table"
         THEN LoadLoop(d, year + 1, end_year, columns, Append(dfs, df))
         ELSE IF df.kind = "FileNotFoundError"
         THEN LoadLoop(d, year + 1, end_year, columns, dfs)
         ELSE [dfs |-> dfs, raised |-> TRUE, exc |-> df]

\* with nothing loaded, the Not-Found error of the last year is raised again
load_seasons_reraise(d, start_year, end_year, columns) ==
    LET loop == LoadLoop(d, start_year, end_year, columns, << >>) IN
    IF loop.raised THEN loop.exc
    ELSE IF loop.dfs = << >>
    THEN load_season(d, end_year, columns)
    ELSE Returned(concat(loop.dfs))

\* the two years put in ascending order before the loop
load_seasons_either_way(d, start_year, end_year, columns) ==
    LET loop == LoadLoop(d, Min({start_year, end_year}),
                         Max({start_year, end_year}), columns, << >>) IN
    IF loop.raised THEN loop.exc
    ELSE IF loop.dfs = << >>
    THEN Raised("FileNotFoundError",
                [head |-> "No data found for years ",
                 years |-> <<start_year, end_year>>,
                 run |-> "python collector/collect_statcast.py --range ",
                 args |-> <<start_year, end_year>>])
    ELSE Returned(concat(loop.dfs))

load_seasons(d, start_year, end_year, columns) ==
    LET loop == LoadLoop(d, start_year, end_year, columns, << >>) IN
    IF loop.raised THEN loop.exc
    ELSE IF loop.dfs = << >>
    THEN Raised("FileNotFoundError",
                [head |-> "No data found for years ",
                 years |-> <<start_year, end_year>>,
                 run |-> "python collector/collect_statcast.py --range ",
                 args |-> <<start_year, end_year>>])
    ELSE Returned(concat(loop.dfs))

\* range(min, max): the last supported season left out
load_all_short(d, columns) ==
    load_seasons(d, Min(AVAILABLE_SEASONS), Max(AVAILABLE_SEASONS) - 1, columns)

load_all(d, columns) ==
    load_seasons(d, Min(AVAILABLE_SEASONS), Max(AVAILABLE_SEASONS), columns)

----------------------------------------------------------------------------
(* The calls *)

NoCall == [op |-> "none"]
NoWatch == [watched |-> FALSE]

\* the history of the watched load_season arguments: `recent` is what the
\* latest call with them returned, `before` what the call before that one
\* returned, `gap` whether other loader calls ran between the two
Watching(year, columns) ==
    [watched |-> TRUE, year |-> year, columns |-> columns,
     before |-> << >>, recent |-> << >>, between |-> FALSE, gap |-> FALSE]

Watch(e, year, columns, out) ==
    IF e.watched /\ e.year = year /\ e.columns = columns
    THEN [e EXCEPT !.before = e.recent, !.recent = <<out>>,
                   !.gap = e.between, !.between = FALSE]
    ELSE IF e.watched /\ e.recent # << >> THEN [e EXCEPT !.between = TRUE]
    ELSE e

Between(e) ==
    IF e.watched /\ e.recent # << >> THEN [e EXCEPT !.between = TRUE] ELSE e

\* a write to the watched season's file starts its history again
Rewritten(e, year) ==
    IF e.watched /\ e.year = year
    THEN Watching(e.year, e.columns)
    ELSE e

\* a load that moves the file it has read out of the data directory
LoadSeason_consuming(year, columns) ==
    /\ last' = [op |-> "load_season", year |-> year, columns |-> columns,
                out |-> load_season(disk, year, columns)]
    /\ earlier' = Watch(earlier, year, columns, load_season(disk, year, columns))
    /\ disk' = [p \in DOMAIN disk \ {SeasonFile(year)} |-> disk[p]]

LoadSeason(year, columns) ==
    /\ last' = [op |-> "load_season", year |-> year, columns |-> columns,
                out |-> load_season(disk, year, columns)]
    /\ earlier' = Watch(earlier, year, columns, load_season(disk, year, columns))
    /\ UNCHANGED disk

LoadSeasons(start_year, end_year, columns) ==
    /\ last' = [op |-> "load_seasons", start_year |-> start_year,
                end_year |-> end_year, columns |-> columns,
                out |-> load_seasons(disk, start_year, end_year, columns)]
    /\ earlier' = Between(earlier)
    /\ UNCHANGED disk

LoadAll(columns) ==
    /\ last' = [op |-> "load_all", columns |-> columns,
                out |-> load_all(disk, columns)]
    /\ earlier' = Between(earlier)
    /\ UNCHANGED disk

\* collect_season(year): `response` is what input() returns at the
\* overwrite prompt, `data` what statcast(start_dt, end_dt) returns
CollectSeason(year) ==
    LET filepath == SeasonFile(year) IN
    IF year \notin SEASON_DATES
    THEN /\ last' = [op |-> "collect_season", year |-> year,
                     out |-> [kind |-> "exit", status |-> 1],
                     response |-> << >>, fetched |-> FALSE]
         /\ UNCHANGED <<disk, earlier>>
    ELSE \E response \in IF exists(disk, filepath) THEN {<<r>> : r \in Responses}
                                                   ELSE {<< >>} :
         IF response # << >> /\ Lower(response[1]) # "y"
         THEN /\ last' = [op |-> "collect_season", year |-> year,
                          out |-> [kind |-> "path", path |-> filepath],
                          response |-> response, fetched |-> FALSE]
              /\ UNCHANGED <<disk, earlier>>
         ELSE \E data \in FetchResults(year) :
              /\ disk' = [p \in DOMAIN disk \cup {filepath} |->
                             IF p = filepath THEN data ELSE disk[p]]
              /\ last' = [op |-> "collect_season", year |-> year,
                          out |-> [kind |-> "path", path |-> filepath],
                          response |-> response, fetched |-> TRUE]
              /\ earlier' = Rewritten(earlier, year)

----------------------------------------------------------------------------
(* The loader over the data directory the collector fills *)

Init ==
    /\ disk = [p \in {} |-> NaN]
    /\ last = NoCall
    /\ earlier = NoWatch

Calls(years, projections) ==
    \/ \E year \in years, columns \in projections : LoadSeason(year, columns)
    \/ \E start_year \in years, end_year \in years, columns \in projections :
          LoadSeasons(start_year, end_year, columns)
    \/ \E columns \in projections : LoadAll(columns)
    \/ \E year \in years : CollectSeason(year)

Next == Calls(YearArgs, ColumnArgs)

Spec == Init /\ [][Next]_vars

(* The same calls with the history of one (year, columns) pair kept *)

WatchedYears == {RangeFirst - 1, RangeFirst}
WatchedColumns == {None, List({"pitch_type"}), List({"bat_speed"})}

InitWatch ==
    /\ disk = [p \in {} |-> NaN]
    /\ last = NoCall
    /\ earlier \in {Watching(y, c) : y \in WatchedYears, c \in WatchedColumns}

NextWatch == Calls(WatchedYears, WatchedColumns)

SpecWatch == InitWatch /\ [][NextWatch]_vars

----------------------------------------------------------------------------
(* Derived metrics *)

\* a number of the source, in the model's unit
K(n) == Cell(n * Scale)

\* float arithmetic and comparison: NaN in, NaN out; a comparison with NaN
\* is false
Minus(x, y) == IF x = NaN \/ y = NaN THEN NaN ELSE Cell(x[1] - y[1])
Plus(x, y) == IF x = NaN \/ y = NaN THEN NaN ELSE Cell(x[1] + y[1])
GE(x, y) == x # NaN /\ y # NaN /\ x[1] >= y[1]
LE(x, y) == x # NaN /\ y # NaN /\ x[1] <= y[1]

\* the 8 degree floor taken as exclusive
calculate_barrel_open_floor(exit_velocity, launch_angle) ==
    LET ev == exit_velocity
        la == launch_angle
    IN  /\ GE(ev, K(98))
        /\ GE(la, Minus(K(26), Minus(ev, K(98))))
        /\ LE(la, Plus(K(30), Minus(ev, K(98))))
        /\ GE(la, K(8)) /\ la # K(8)
        /\ LE(la, K(50))

\* the sliding upper bound, la <= 30 + (ev - 98), left out
calculate_barrel_no_upper(exit_velocity, launch_angle) ==
    LET ev == exit_velocity
        la == launch_angle
    IN  /\ GE(ev, K(98))
        /\ GE(la, Minus(K(26), Minus(ev, K(98))))
        /\ GE(la, K(8))
        /\ LE(la, K(50))

\* the exit velocity gate taken as exclusive
calculate_barrel_open_gate(exit_velocity, launch_angle) ==
    LET ev == exit_velocity
        la == launch_angle
    IN  /\ GE(ev, K(98)) /\ ev # K(98)
        /\ GE(la, Minus(K(26), Minus(ev, K(98))))
        /\ LE(la, Plus(K(30), Minus(ev, K(98))))
        /\ GE(la, K(8))
        /\ LE(la, K(50))

\* every comparison written as the negation of its opposite, which is true
\* of a NaN
calculate_barrel_negated(exit_velocity, launch_angle) ==
    LET ev == exit_velocity
        la == launch_angle
        lo == Minus(K(26), Minus(ev, K(98)))
        hi == Plus(K(30), Minus(ev, K(98)))
    IN  /\ ~(ev # NaN /\ ev[1] < 98 * Scale)
        /\ ~(la # NaN /\ lo # NaN /\ la[1] < lo[1])
        /\ ~(la # NaN /\ hi # NaN /\ la[1] > hi[1])
        /\ ~(la # NaN /\ la[1] < 8 * Scale)
        /\ ~(la # NaN /\ la[1] > 50 * Scale)

\* the lower bound moved with the wrong sign, la >= 26 + (ev - 98)
calculate_barrel_narrowing(exit_velocity, launch_angle) ==
    LET ev == exit_velocity
        la == launch_angle
    IN  /\ GE(ev, K(98))
        /\ GE(la, Plus(K(26), Minus(ev, K(98))))
        /\ LE(la, Plus(K(30), Minus(ev, K(98))))
        /\ GE(la, K(8))
        /\ LE(la, K(50))

calculate_barrel(exit_velocity, launch_angle) ==
    LET ev == exit_velocity
        la == launch_angle
    IN  /\ GE(ev, K(98))
        /\ GE(la, Minus(K(26), Minus(ev, K(98))))
        /\ LE(la, Plus(K(30), Minus(ev, K(98))))
        /\ GE(la, K(8))
        /\ LE(la, K(50))

ExitVelocities ==
    {NaN} \cup {Cell(v) : v \in ((98 - EvBelow) * Scale) .. ((98 + EvAbove) * Scale)}
LaunchAngles ==
    {NaN} \cup {Cell(a) : a \in ((8 - LaMargin) * Scale) .. ((50 + LaMargin) * Scale)}

CalculateBarrel ==
    /\ last.op = "batted_ball"
    /\ last' = [op |-> "calculate_barrel", ev |-> last.ev, la |-> last.la,
                out |-> calculate_barrel(last.ev, last.la)]
    /\ UNCHANGED <<disk, earlier>>

(* calculate_barrel applied to one batted ball *)

InitBarrel ==
    /\ disk = [p \in {} |-> NaN]
    /\ earlier = NoWatch
    /\ last \in {[op |-> "batted_ball", ev |-> ev, la |-> la] :
                    ev \in ExitVelocities, la \in LaunchAngles}

NextBarrel == CalculateBarrel

SpecBarrel == InitBarrel /\ [][NextBarrel]_vars

----------------------------------------------------------------------------
(* Rate metrics over a table of pitches *)

SWING_OUTCOMES ==
    {"swinging_strike", "swinging_strike_blocked", "foul", "foul_tip",
     "hit_into_play"}

WHIFF_OUTCOMES == {"swinging_strike", "swinging_strike_blocked"}

IN_ZONE == 1..9

OUT_ZONE == {11, 12, 13, 14}

\* a float that is the quotient of two counts, kept as the two counts
Float(n, d) == [kind |-> "float", num |-> n, den |-> d]

\* the literal 0.0
Zero == Float(0, 1)

\* count / count of two numpy integers: 0 / 0 is nan
Div(n, d) == IF d = 0 THEN [kind |-> "nan"] ELSE Float(n, d)

\* df[column] of a frame that has the column
Col(df, column) == [i \in 1..Len(df.rows) |-> df.rows[i][column]]

\* Series.isin(values): a missing cell is in no list of values
isin(series, values) ==
    [i \in 1..Len(series) |-> series[i] # NaN /\ series[i][1] \in values]

\* Series.notna()
notna(series) == [i \in 1..Len(series) |-> series[i] # NaN]

\* series >= scalar and series <= scalar, False on a missing cell
ge(series, scalar) == [i \in 1..Len(series) |-> GE(series[i], scalar)]
le(series, scalar) == [i \in 1..Len(series) |-> LE(series[i], scalar)]

\* mask & mask
and(a, b) == [i \in 1..Len(a) |-> a[i] /\ b[i]]

\* mask.sum(): the number of True
RECURSIVE sum(_)
sum(mask) ==
    IF mask = << >> THEN 0
    ELSE (IF Head(mask) THEN 1 ELSE 0) + sum(Tail(mask))

\* the swings divided by every pitch of the frame
whiff_rate_per_pitch(df) ==
    IF "description" \notin df.columns THEN Raised("KeyError", "description")
    ELSE
    LET swings == isin(Col(df, "description"), SWING_OUTCOMES)
        whiffs == isin(Col(df, "description"), WHIFF_OUTCOMES)
        swing_count == Len(df.rows)
        whiff_count == sum(whiffs)
    IN  IF swing_count > 0 THEN Div(whiff_count, swing_count) ELSE Zero

whiff_rate(df) ==
    IF "description" \notin df.columns THEN Raised("KeyError", "description")
    ELSE
    LET swings == isin(Col(df, "description"), SWING_OUTCOMES)
        whiffs == isin(Col(df, "description"), WHIFF_OUTCOMES)
        swing_count == sum(swings)
        whiff_count == sum(whiffs)
    IN  IF swing_count > 0 THEN Div(whiff_count, swing_count) ELSE Zero

\* outside taken as "not in the strike zone"
chase_rate_not_in_zone(df) ==
    IF "zone" \notin df.columns THEN Raised("KeyError", "zone")
    ELSE IF "description" \notin df.columns
         THEN Raised("KeyError", "description")
    ELSE
    LET in_zone == isin(Col(df, "zone"), IN_ZONE)
        outside_zone == [i \in 1..Len(in_zone) |-> ~in_zone[i]]
        swings == isin(Col(df, "description"), SWING_OUTCOMES)
        outside_count == sum(outside_zone)
        chase_count == sum(and(outside_zone, swings))
    IN  IF outside_count > 0 THEN Div(chase_count, outside_count) ELSE Zero

chase_rate(df) ==
    IF "zone" \notin df.columns THEN Raised("KeyError", "zone")
    ELSE IF "description" \notin df.columns
         THEN Raised("KeyError", "description")
    ELSE
    LET outside_zone == isin(Col(df, "zone"), OUT_ZONE)
        swings == isin(Col(df, "description"), SWING_OUTCOMES)
        outside_count == sum(outside_zone)
        chase_count == sum(and(outside_zone, swings))
    IN  IF outside_count > 0 THEN Div(chase_count, outside_count) ELSE Zero

\* the total taken over the zones of the two lists only
zone_rate_listed_zones(df) ==
    IF "zone" \notin df.columns THEN Raised("KeyError", "zone")
    ELSE
    LET in_zone == isin(Col(df, "zone"), IN_ZONE)
        total == isin(Col(df, "zone"), IN_ZONE \cup OUT_ZONE)
    IN  IF sum(total) > 0 THEN Div(sum(in_zone), sum(total)) ELSE Zero

zone_rate(df) ==
    IF "zone" \notin df.columns THEN Raised("KeyError", "zone")
    ELSE
    LET in_zone == isin(Col(df, "zone"), IN_ZONE)
        total == notna(Col(df, "zone"))
    IN  IF sum(total) > 0 THEN Div(sum(in_zone), sum(total)) ELSE Zero

\* hard hit taken as "not under the threshold", which a missing speed is
hard_hit_rate_not_under(df, threshold) ==
    IF "launch_speed" \notin df.columns
    THEN Raised("KeyError", "launch_speed")
    ELSE
    LET batted == notna(Col(df, "launch_speed"))
        speed == Col(df, "launch_speed")
        hard_hit == [i \in 1..Len(speed) |->
                        ~(speed[i] # NaN /\ threshold # NaN
                          /\ speed[i][1] < threshold[1])]
        batted_count == sum(batted)
        hard_count == sum(hard_hit)
    IN  IF batted_count > 0 THEN Div(hard_count, batted_count) ELSE Zero

\* the comparison turned round, launch_speed <= threshold
hard_hit_rate_soft(df, threshold) ==
    IF "launch_speed" \notin df.columns
    THEN Raised("KeyError", "launch_speed")
    ELSE
    LET batted == notna(Col(df, "launch_speed"))
        hard_hit == le(Col(df, "launch_speed"), threshold)
        batted_count == sum(batted)
        hard_count == sum(hard_hit)
    IN  IF batted_count > 0 THEN Div(hard_count, batted_count) ELSE Zero

hard_hit_rate(df, threshold) ==
    IF "launch_speed" \notin df.columns
    THEN Raised("KeyError", "launch_speed")
    ELSE
    LET batted == notna(Col(df, "launch_speed"))
        hard_hit == ge(Col(df, "launch_speed"), threshold)
        batted_count == sum(batted)
        hard_count == sum(hard_hit)
    IN  IF batted_count > 0 THEN Div(hard_count, batted_count) ELSE Zero

\* the first row of the frame left out of both counts
sweet_spot_rate_skip_first(df, min_angle, max_angle) ==
    IF "launch_angle" \notin df.columns
    THEN Raised("KeyError", "launch_angle")
    ELSE
    LET angle == IF df.rows = << >> THEN << >>
                 ELSE Tail(Col(df, "launch_angle"))
        batted == notna(angle)
        sweet_spot == and(ge(angle, min_angle), le(angle, max_angle))
        batted_count == sum(batted)
        sweet_count == sum(sweet_spot)
    IN  IF batted_count > 0 THEN Div(sweet_count, batted_count) ELSE Zero

\* the division made whatever the count of batted balls
sweet_spot_rate_unguarded(df, min_angle, max_angle) ==
    IF "launch_angle" \notin df.columns
    THEN Raised("KeyError", "launch_angle")
    ELSE
    LET batted == notna(Col(df, "launch_angle"))
        sweet_spot == and(ge(Col(df, "launch_angle"), min_angle),
                          le(Col(df, "launch_angle"), max_angle))
        batted_count == sum(batted)
        sweet_count == sum(sweet_spot)
    IN  Div(sweet_count, batted_count)

sweet_spot_rate(df, min_angle, max_angle) ==
    IF "launch_angle" \notin df.columns
    THEN Raised("KeyError", "launch_angle")
    ELSE
    LET batted == notna(Col(df, "launch_angle"))
        sweet_spot == and(ge(Col(df, "launch_angle"), min_angle),
                          le(Col(df, "launch_angle"), max_angle))
        batted_count == sum(batted)
        sweet_count == sum(sweet_spot)
    IN  IF batted_count > 0 THEN Div(sweet_count, batted_count) ELSE Zero

\* the frames the metrics are called with, each with the columns one of
\* them reads
Descriptions ==
    {NaN} \cup {Cell(d) : d \in SWING_OUTCOMES \cup
                                  {"foul_bunt", "missed_bunt", "ball"}}

Zones == {NaN} \cup {Cell(z) : z \in {1, 9, 10, 11, 14}}

LaunchSpeeds == {NaN, Cell(95 * Scale - 1), K(95), Cell(95 * Scale + 1)}

Angles == {NaN, Cell(8 * Scale - 1), K(8), K(32), Cell(32 * Scale + 1)}

Thresholds == {NaN, Cell(95 * Scale - 1), K(95), Cell(95 * Scale + 1)}

AngleLimits == {NaN, K(8), K(32)}

FramesOf(columns, rowset) ==
    {[columns |-> columns, rows |-> r] :
        r \in UNION {[1..n -> rowset] : n \in 0..MaxPitches}}

\* what the frames with a zone and a description carry: a zone at each
\* edge of the two lists, the one between them and a missing one; a swing,
\* a pitch taken and a missing description
PitchZones == {NaN} \cup {Cell(z) : z \in {9, 10, 11, 14}}

SwingOrNot == {NaN, Cell("hit_into_play"), Cell("ball")}

DescriptionFrames == FramesOf({"description"}, [description : Descriptions])

ZoneFrames == FramesOf({"zone"}, [zone : Zones])

PitchFrames ==
    FramesOf({"zone", "description"}, [zone : PitchZones, description : SwingOrNot])

SpeedFrames == FramesOf({"launch_speed"}, [launch_speed : LaunchSpeeds])

AngleFrames == FramesOf({"launch_angle"}, [launch_angle : Angles])

Frames ==
    DescriptionFrames \cup ZoneFrames \cup PitchFrames \cup SpeedFrames
        \cup AngleFrames

WhiffRate ==
    /\ last.op = "frame"
    /\ last' = [op |-> "whiff_rate", df |-> last.df,
                out |-> whiff_rate(last.df)]
    /\ UNCHANGED <<disk, earlier>>

ChaseRate ==
    /\ last.op = "frame"
    /\ last' = [op |-> "chase_rate", df |-> last.df,
                out |-> chase_rate(last.df)]
    /\ UNCHANGED <<disk, earlier>>

ZoneRate ==
    /\ last.op = "frame"
    /\ last' = [op |-> "zone_rate", df |-> last.df,
                out |-> zone_rate(last.df)]
    /\ UNCHANGED <<disk, earlier>>

HardHitRate ==
    /\ last.op = "frame"
    /\ \E threshold \in Thresholds :
          last' = [op |-> "hard_hit_rate", df |-> last.df,
                   threshold |-> threshold,
                   out |-> hard_hit_rate(last.df, threshold)]
    /\ UNCHANGED <<disk, earlier>>

SweetSpotRate ==
    /\ last.op = "frame"
    /\ \E min_angle \in AngleLimits, max_angle \in AngleLimits :
          last' = [op |-> "sweet_spot_rate", df |-> last.df,
                   min_angle |-> min_angle, max_angle |-> max_angle,
                   out |-> sweet_spot_rate(last.df, min_angle, max_angle)]
    /\ UNCHANGED <<disk, earlier>>

(* The rate metrics applied to one frame *)
InitRates ==
    /\ disk = [p \in {} |-> NaN]
    /\ earlier = NoWatch
    /\ last \in {[op |-> "frame", df |-> df] :
                    df \in Frames}

NextRates ==
    \/ WhiffRate
    \/ ChaseRate
    \/ ZoneRate
    \/ HardHitRate
    \/ SweetSpotRate

SpecRates == InitRates /\ [][NextRates]_vars

----------------------------------------------------------------------------
(* Plate appearances *)

\* strings that are taken apart or put together are sequences of characters
Underscore == <<"_">>
StrNaN == <<"n", "a", "n">>
Strikeout == <<"s", "t", "r", "i", "k", "e", "o", "u", "t">>
StrikeoutCapital == <<"S", "t", "r", "i", "k", "e", "o", "u", "t">>
StrikeoutDoublePlay ==
    Strikeout \o <<"_", "d", "o", "u", "b", "l", "e", "_", "p", "l", "a", "y">>
Walk == <<"w", "a", "l", "k">>
WalkCapital == <<"W", "a", "l", "k">>
IntentWalk == <<"i", "n", "t", "e", "n", "t", "_">> \o Walk
HomeRun == <<"h", "o", "m", "e", "_", "r", "u", "n">>
Single == <<"s", "i", "n", "g", "l", "e">>

DigitChars == <<"0", "1", "2", "3", "4", "5", "6", "7", "8", "9">>

\* str(n) of a non-negative integer
RECURSIVE Digits(_)
Digits(n) ==
    IF n < 10 THEN <<DigitChars[n + 1]>>
    ELSE Digits(n \div 10) \o <<DigitChars[(n % 10) + 1]>>

\* Series.astype(str), cell by cell
astype_str(series) ==
    [i \in 1..Len(series) |->
        IF series[i] = NaN THEN StrNaN ELSE Digits(series[i][1])]

\* the code points of the characters the keys are made of
Ord(c) ==
    CASE c = "_" -> 95
      [] c = "a" -> 97
      [] c = "n" -> 110
      [] OTHER -> 47 + (CHOOSE d \in 1..10 : DigitChars[d] = c)

\* a < b for two strings
RECURSIVE StrLess(_, _)
StrLess(a, b) ==
    IF b = << >> THEN FALSE
    ELSE IF a = << >> THEN TRUE
    ELSE IF Head(a) # Head(b) THEN Ord(Head(a)) < Ord(Head(b))
    ELSE StrLess(Tail(a), Tail(b))

\* the strings of a set in ascending order
RECURSIVE Sorted(_)
Sorted(S) ==
    IF S = {} THEN << >>
    ELSE LET least == CHOOSE x \in S : \A y \in S \ {x} : StrLess(x, y)
         IN  <<least>> \o Sorted(S \ {least})

\* GroupBy 'first', 'last' and 'max' of one column of one group: the first
\* and the last cell of the group that are not null, in row order, and the
\* greatest of those that are not null
agg_first(series) ==
    LET there == {i \in 1..Len(series) : series[i] # NaN}
    IN  IF there = {} THEN NaN ELSE series[Min(there)]

agg_last(series) ==
    LET there == {i \in 1..Len(series) : series[i] # NaN}
    IN  IF there = {} THEN NaN ELSE series[Max(there)]

agg_max(series) ==
    LET there == {series[i][1] : i \in {j \in 1..Len(series) : series[j] # NaN}}
    IN  IF there = {} THEN NaN ELSE Cell(Max(there))

\* the columns the aggregation names
AggColumns ==
    {"events", "pitch_number", "batter", "pitcher", "game_pk", "game_year",
     "home_team", "away_team"}

aggfunc(column, series) ==
    IF column = "events" THEN agg_last(series)
    ELSE IF column = "pitch_number" THEN agg_max(series)
    ELSE agg_first(series)

\* df[column] = series
setitem(df, column, series) ==
    [columns |-> df.columns \cup {column},
     rows |-> [i \in 1..Len(df.rows) |->
                  [c \in df.columns \cup {column} |->
                      IF c = column THEN series[i] ELSE df.rows[i][c]]]]

\* the two strings of a row joined with no '_' between them
pa_key_joined(game_pk, at_bat_number) ==
    [i \in 1..Len(game_pk) |-> Cell(game_pk[i] \o at_bat_number[i])]

\* df['game_pk'].astype(str) + '_' + df['at_bat_number'].astype(str), on the
\* two columns already made strings
pa_key(game_pk, at_bat_number) ==
    [i \in 1..Len(game_pk) |->
        Cell(game_pk[i] \o Underscore \o at_bat_number[i])]

\* the body of aggregate_pa_results from line 159 on, run on the frame
\* `local`: the frame `local` is afterwards, and what is returned
Aggregated(local) ==
    IF ~({"game_pk", "at_bat_number"} \subseteq local.columns)
    THEN [df |-> local,
          out |-> Raised("KeyError", {"game_pk", "at_bat_number"} \ local.columns)]
    ELSE
    LET keyed == setitem(local, "pa_key",
                         pa_key(astype_str(Col(local, "game_pk")),
                                astype_str(Col(local, "at_bat_number"))))
        keys == Sorted({keyed.rows[i].pa_key[1] : i \in 1..Len(keyed.rows)})
        group(k) == SelectSeq(keyed.rows, LAMBDA r : r.pa_key = Cell(k))
        agg(k) == [c \in AggColumns \cup {"pa_key"} |->
                      IF c = "pa_key" THEN Cell(k)
                      ELSE aggfunc(c, Col([rows |-> group(k)], c))]
        pa_df == [n \in 1..Len(keys) |-> agg(keys[n])]
    IN  IF ~(AggColumns \subseteq keyed.columns)
        THEN [df |-> keyed,
              out |-> Raised("KeyError", AggColumns \ keyed.columns)]
        ELSE [df |-> keyed,
              out |-> [kind |-> "table",
                       columns |-> AggColumns \cup {"pa_key"},
                       rows |-> SelectSeq(pa_df, LAMBDA r : r.events # NaN)]]

\* df.copy(): a frame of its own with the same columns and rows
copy(df) == df

\* the grouping column written into the frame the caller passed
aggregate_pa_results_in_place(df) ==
    LET run == Aggregated(df)
    IN  [df |-> run.df, out |-> run.out]

\* aggregate_pa_results(df): the caller's frame after the call, which was
\* copied before any column was written, and what is returned
aggregate_pa_results(df) ==
    LET run == Aggregated(copy(df))
    IN  [df |-> df, out |-> run.out]

\* a Python int
PyInt(n) == [kind |-> "int", value |-> n]

\* x * 100 of a float
Times100(x) == IF x.kind = "float" THEN Float(x.num * 100, x.den) ELSE x

\* str.lower() on the letters the events are written with
lower(str) ==
    [i \in 1..Len(str) |->
        IF str[i] = "S" THEN "s" ELSE IF str[i] = "W" THEN "w" ELSE Lower(str[i])]

\* pat occurs in str; without `case` the two are compared in lower case
contains(str, pat, case) ==
    LET t == IF case THEN str ELSE lower(str)
        q == IF case THEN pat ELSE lower(pat)
    IN  \E i \in 1..(Len(t) - Len(q) + 1) : SubSeq(t, i, i + Len(q) - 1) = q

\* the dtype of a column: a frame says of which of its columns pandas holds
\* the cells as float64, which it does for a column of nothing but NaN
\* built from floats; every other column here is an object column
dtype(df, column) ==
    IF "dtypes" \in DOMAIN df /\ column \in DOMAIN df.dtypes
    THEN df.dtypes[column]
    ELSE "object"

\* Series.str: the accessor is there for an object column only
StrAccessorError == Raised("AttributeError", "Can only use .str accessor with string values!")

\* Series.str.contains(pat, case=case, na=na)
str_contains(series, pat, case, na) ==
    [i \in 1..Len(series) |->
        IF series[i] = NaN THEN na ELSE contains(series[i][1], pat, case)]

\* series == scalar, False on a missing cell
eq(series, scalar) ==
    [i \in 1..Len(series) |-> series[i] # NaN /\ series[i][1] = scalar]

\* the strikeouts looked for as written, capitals not folded
calculate_rate_stats_cased(pa_df) ==
    LET total_pa == Len(pa_df.rows) IN
    IF total_pa = 0
    THEN [kind |-> "dict", k_pct |-> PyInt(0), bb_pct |-> PyInt(0), hr_pct |-> PyInt(0)]
    ELSE IF "events" \notin pa_df.columns THEN Raised("KeyError", "events")
    ELSE IF dtype(pa_df, "events") # "object" THEN StrAccessorError
    ELSE
    LET strikeouts == sum(str_contains(Col(pa_df, "events"), Strikeout, TRUE, FALSE))
        walks == sum(isin(Col(pa_df, "events"), {Walk, IntentWalk}))
        home_runs == sum(eq(Col(pa_df, "events"), HomeRun))
    IN  [kind |-> "dict",
         k_pct |-> Times100(Div(strikeouts, total_pa)),
         bb_pct |-> Times100(Div(walks, total_pa)),
         hr_pct |-> Times100(Div(home_runs, total_pa))]

\* the early return on no row left out
calculate_rate_stats_unguarded(pa_df) ==
    LET total_pa == Len(pa_df.rows) IN
    IF "events" \notin pa_df.columns THEN Raised("KeyError", "events")
    ELSE IF dtype(pa_df, "events") # "object" THEN StrAccessorError
    ELSE
    LET strikeouts == sum(str_contains(Col(pa_df, "events"), Strikeout, FALSE, FALSE))
        walks == sum(isin(Col(pa_df, "events"), {Walk, IntentWalk}))
        home_runs == sum(eq(Col(pa_df, "events"), HomeRun))
    IN  [kind |-> "dict",
         k_pct |-> Times100(Div(strikeouts, total_pa)),
         bb_pct |-> Times100(Div(walks, total_pa)),
         hr_pct |-> Times100(Div(home_runs, total_pa))]

calculate_rate_stats(pa_df) ==
    LET total_pa == Len(pa_df.rows) IN
    IF total_pa = 0
    THEN [kind |-> "dict", k_pct |-> PyInt(0), bb_pct |-> PyInt(0), hr_pct |-> PyInt(0)]
    ELSE IF "events" \notin pa_df.columns THEN Raised("KeyError", "events")
    ELSE IF dtype(pa_df, "events") # "object" THEN StrAccessorError
    ELSE
    LET strikeouts == sum(str_contains(Col(pa_df, "events"), Strikeout, FALSE, FALSE))
        walks == sum(isin(Col(pa_df, "events"), {Walk, IntentWalk}))
        home_runs == sum(eq(Col(pa_df, "events"), HomeRun))
    IN  [kind |-> "dict",
         k_pct |-> Times100(Div(strikeouts, total_pa)),
         bb_pct |-> Times100(Div(walks, total_pa)),
         hr_pct |-> Times100(Div(home_runs, total_pa))]

\* the frames of pitches the aggregation is called with: two plate
\* appearances whose keys are made of the same digits, up to two pitches
\* each, with or without an event, the second pitch seen by another batter
\* than the first
PaKeys == {<<1, 11>>, <<11, 1>>}

PaEvents == {NaN, Cell(Walk), Cell(Single)}

PaPitches == {[pitch_number |-> 1, batter |-> 7], [pitch_number |-> 2, batter |-> 8]}

PaRows ==
    {[game_pk |-> Cell(k[1]), at_bat_number |-> Cell(k[2]),
      pitch_number |-> Cell(n.pitch_number), events |-> e,
      batter |-> Cell(n.batter),
      pitcher |-> Cell(30), game_year |-> Cell(2024),
      home_team |-> Cell("NYY"), away_team |-> Cell("BOS")] :
        k \in PaKeys, n \in PaPitches, e \in PaEvents}

RowsUpTo(rowset, n) == UNION {[1..m -> rowset] : m \in 0..n}

PaFrames ==
    {[columns |-> AggColumns \cup {"at_bat_number"}, rows |-> r] :
        r \in RowsUpTo(PaRows, MaxPaRows)}

\* the frames of plate appearances the rate statistics are called with
Events ==
    {NaN} \cup {Cell(e) : e \in {Strikeout, StrikeoutCapital, StrikeoutDoublePlay,
                                 Walk, WalkCapital, IntentWalk, HomeRun, Single}}

EventFrames ==
    {[columns |-> {"events"}, rows |-> r] :
        r \in RowsUpTo([events : Events], MaxPaRows)}

\* the frames whose events column is float64: no event on any row
NullEventFrames ==
    {[columns |-> {"events"}, rows |-> r, dtypes |-> [events |-> "float64"]] :
        r \in RowsUpTo({[events |-> NaN]}, MaxPaRows)}

AggregatePaResults ==
    /\ last.op = "frame"
    /\ LET run == aggregate_pa_results(last.df)
       IN  last' = [op |-> "aggregate_pa_results", given |-> last.df,
                    df |-> run.df, out |-> run.out]
    /\ UNCHANGED <<disk, earlier>>

CalculateRateStats ==
    /\ last.op = "frame"
    /\ last' = [op |-> "calculate_rate_stats", df |-> last.df,
                out |-> calculate_rate_stats(last.df)]
    /\ UNCHANGED <<disk, earlier>>

(* The two plate appearance functions applied to one frame *)
InitPa ==
    /\ disk = [p \in {} |-> NaN]
    /\ earlier = NoWatch
    /\ last \in {[op |-> "frame", df |-> df] :
                    df \in PaFrames \cup EventFrames \cup NullEventFrames}

NextPa ==
    \/ AggregatePaResults
    \/ CalculateRateStats

SpecPa == InitPa /\ [][NextPa]_vars

----------------------------------------------------------------------------
(* Calls of the metrics, one after another, on one table of the caller *)

MetricCalls ==
    {"whiff_rate", "chase_rate", "zone_rate", "hard_hit_rate",
     "sweet_spot_rate", "aggregate_pa_results", "calculate_rate_stats"}

\* the call `name` on the caller's table df, hard_hit_rate and
\* sweet_spot_rate with their default parameters: the table the caller
\* holds afterwards and what is returned; only aggregate_pa_results writes
\* into a frame
Applied(name, df) ==
    CASE name = "whiff_rate" -> [df |-> df, out |-> whiff_rate(df)]
      [] name = "chase_rate" -> [df |-> df, out |-> chase_rate(df)]
      [] name = "zone_rate" -> [df |-> df, out |-> zone_rate(df)]
      [] name = "hard_hit_rate" -> [df |-> df, out |-> hard_hit_rate(df, K(95))]
      [] name = "sweet_spot_rate" ->
            [df |-> df, out |-> sweet_spot_rate(df, K(8), K(32))]
      [] name = "aggregate_pa_results" -> aggregate_pa_results(df)
      [] name = "calculate_rate_stats" ->
            [df |-> df, out |-> calculate_rate_stats(df)]

\* the tables: pitches with every column the metrics read, whose
\* pitch_number, event and tracked measurements can be missing, and plate
\* appearances with their event
PitchTableRows ==
    {[game_pk |-> Cell(1), at_bat_number |-> Cell(k), pitch_number |-> n,
      events |-> e, batter |-> Cell(7), pitcher |-> Cell(30),
      game_year |-> Cell(2024), home_team |-> Cell("NYY"),
      away_team |-> Cell("BOS"),
      description |-> IF tracked THEN Cell("hit_into_play") ELSE NaN,
      zone |-> IF tracked THEN Cell(11) ELSE NaN,
      launch_speed |-> IF tracked THEN K(95) ELSE NaN,
      launch_angle |-> IF tracked THEN K(20) ELSE NaN] :
        k \in {1, 2}, n \in {NaN, Cell(1)}, e \in {NaN, Cell(Single)},
        tracked \in BOOLEAN}

PitchTables ==
    {[columns |-> AggColumns \cup {"at_bat_number", "description", "zone",
                                  "launch_speed", "launch_angle"},
      rows |-> r] : r \in RowsUpTo(PitchTableRows, MaxTableRows)}

EventTables ==
    {[columns |-> {"events"}, rows |-> r] :
        r \in RowsUpTo([events : {NaN, Cell(Strikeout), Cell(Walk)}], MaxTableRows)}

NullEventTables ==
    {[columns |-> {"events"}, rows |-> r, dtypes |-> [events |-> "float64"]] :
        r \in RowsUpTo({[events |-> NaN]}, MaxTableRows)}

\* the table as the caller built it, and the number of calls made on it
Held(df) == [watched |-> FALSE, df |-> df, calls |-> 0]

CallMetric(name) ==
    /\ earlier.calls < MaxCalls
    /\ LET run == Applied(name, last.df)
       IN  last' = [op |-> name, df |-> run.df, out |-> run.out]
    /\ earlier' = [earlier EXCEPT !.calls = @ + 1]
    /\ UNCHANGED disk

InitTables ==
    /\ disk = [p \in {} |-> NaN]
    /\ \E df \in PitchTables \cup EventTables \cup NullEventTables :
          /\ last = [op |-> "frame", df |-> df]
          /\ earlier = Held(df)

NextTables == \E name \in MetricCalls : CallMetric(name)

SpecTables == InitTables /\ [][NextTables]_vars

----------------------------------------------------------------------------
(* The collector by season and by month, and the loader after it *)

\* f"{month:02d}"
Pad2(month) == IF month < 10 THEN <<"0">> \o Digits(month) ELSE Digits(month)

\* DATA_RAW / f"statcast_{year}_{month:02d}.parquet"
MonthFile(year, month) == <<"statcast_", year, "_", Pad2(month), ".parquet">>

\* what the operator can type at the overwrite prompt of collect_month
Answers == Responses \cup {"n", "yes"}

CollectYears == {RangeFirst - 1, RangeFirst}
CollectMonths == {4, 13}

\* the month written into the file of the season
CollectMonth_season_file(year, month) ==
    LET filepath == SeasonFile(year) IN
    IF month \notin 1..12
    THEN /\ last' = [op |-> "collect_month", year |-> year, month |-> month,
                     out |-> Raised("IllegalMonthError", month),
                     response |-> << >>, fetched |-> FALSE]
         /\ UNCHANGED <<disk, earlier>>
    ELSE \E response \in IF exists(disk, filepath) THEN {<<r>> : r \in Answers}
                                                   ELSE {<< >>} :
         IF response # << >> /\ Lower(response[1]) # "y"
         THEN /\ last' = [op |-> "collect_month", year |-> year, month |-> month,
                          out |-> [kind |-> "path", path |-> filepath],
                          response |-> response, fetched |-> FALSE]
              /\ UNCHANGED <<disk, earlier>>
         ELSE \E data \in FetchResults(year) :
              /\ disk' = [p \in DOMAIN disk \cup {filepath} |->
                             IF p = filepath THEN data ELSE disk[p]]
              /\ last' = [op |-> "collect_month", year |-> year, month |-> month,
                          out |-> [kind |-> "path", path |-> filepath],
                          response |-> response, fetched |-> TRUE]
              /\ UNCHANGED earlier

\* the file kept only on the answer 'n'
CollectMonth_unless_no(year, month) ==
    LET filepath == MonthFile(year, month) IN
    IF month \notin 1..12
    THEN /\ last' = [op |-> "collect_month", year |-> year, month |-> month,
                     out |-> Raised("IllegalMonthError", month),
                     response |-> << >>, fetched |-> FALSE]
         /\ UNCHANGED <<disk, earlier>>
    ELSE \E response \in IF exists(disk, filepath) THEN {<<r>> : r \in Answers}
                                                   ELSE {<< >>} :
         IF response # << >> /\ Lower(response[1]) = "n"
         THEN /\ last' = [op |-> "collect_month", year |-> year, month |-> month,
                          out |-> [kind |-> "path", path |-> filepath],
                          response |-> response, fetched |-> FALSE]
              /\ UNCHANGED <<disk, earlier>>
         ELSE \E data \in FetchResults(year) :
              /\ disk' = [p \in DOMAIN disk \cup {filepath} |->
                             IF p = filepath THEN data ELSE disk[p]]
              /\ last' = [op |-> "collect_month", year |-> year, month |-> month,
                          out |-> [kind |-> "path", path |-> filepath],
                          response |-> response, fetched |-> TRUE]
              /\ UNCHANGED earlier

\* collect_month(year, month): calendar.monthrange raises on a month that
\* is none; `response` is what input() returns at the overwrite prompt,
\* `data` what statcast(start_dt, end_dt) returns
CollectMonth(year, month) ==
    LET filepath == MonthFile(year, month) IN
    IF month \notin 1..12
    THEN /\ last' = [op |-> "collect_month", year |-> year, month |-> month,
                     out |-> Raised("IllegalMonthError", month),
                     response |-> << >>, fetched |-> FALSE]
         /\ UNCHANGED <<disk, earlier>>
    ELSE \E response \in IF exists(disk, filepath) THEN {<<r>> : r \in Answers}
                                                   ELSE {<< >>} :
         IF response # << >> /\ Lower(response[1]) # "y"
         THEN /\ last' = [op |-> "collect_month", year |-> year, month |-> month,
                          out |-> [kind |-> "path", path |-> filepath],
                          response |-> response, fetched |-> FALSE]
              /\ UNCHANGED <<disk, earlier>>
         ELSE \E data \in FetchResults(year) :
              /\ disk' = [p \in DOMAIN disk \cup {filepath} |->
                             IF p = filepath THEN data ELSE disk[p]]
              /\ last' = [op |-> "collect_month", year |-> year, month |-> month,
                          out |-> [kind |-> "path", path |-> filepath],
                          response |-> response, fetched |-> TRUE]
              /\ UNCHANGED earlier

NextCollect ==
    \/ \E year \in CollectYears : CollectSeason(year)
    \/ \E month \in CollectMonths : CollectMonth(RangeFirst, month)
    \/ \E year \in CollectYears : LoadSeason(year, None)

SpecCollect == Init /\ [][NextCollect]_vars

----------------------------------------------------------------------------
(* What the data directory holds, read off `disk` alone *)

Present(y) == <<"statcast_", y, ".parquet">> \in DOMAIN disk
FileOf(y) == disk[<<"statcast_", y, ".parquet">>]
PresentYears(a, b) == {y \in a..b : Present(y)}

RECURSIVE RowCount(_)
RowCount(years) ==
    IF years = {} THEN 0
    ELSE LET y == CHOOSE y \in years : TRUE IN
         Len(FileOf(y).rows) + RowCount(years \ {y})

\* rows of the present years of a..b that come before year y's
Offset(a, y) == RowCount(PresentYears(a, y - 1))

\* row `r` of a result carries the cells of stored row `src`, NaN in the
\* columns `src` does not have
SameCells(r, src) ==
    \A c \in DOMAIN r : r[c] = IF c \in DOMAIN src THEN src[c] ELSE NaN

\* the projection, if there is one, names only columns of every present
\* file of a..b
Readable(a, b, columns) ==
    Truthy(columns) =>
        \A y \in PresentYears(a, b) : columns.names \subseteq FileOf(y).columns

IsEmptyRange(out) ==
    /\ out.kind = "FileNotFoundError"
    /\ out.msg.head = "No data found for years "

----------------------------------------------------------------------------
(* Claims *)

\* C1: a load_seasons call over a range with a present year, made without
\* a projection or with one that every present file of the range can serve,
\* returns a table with as many rows as the present years' files hold
\* together, the rows of each year in file order and the years in ascending
\* order, duplicates kept.
C1_RowsInYearOrder ==
    (/\ last.op = "load_seasons"
     /\ PresentYears(last.start_year, last.end_year) # {}
     /\ Readable(last.start_year, last.end_year, last.columns))
    => LET P == PresentYears(last.start_year, last.end_year) IN
       /\ last.out.kind = "table"
       /\ Len(last.out.rows) = RowCount(P)
       /\ \A y \in P : \A i \in 1..Len(FileOf(y).rows) :
             SameCells(last.out.rows[Offset(last.start_year, y) + i],
                       FileOf(y).rows[i])

C1_Witness ==
    /\ last.op = "load_seasons"
    /\ Cardinality(PresentYears(last.start_year, last.end_year)) >= 2
    /\ last.out.kind = "table"
    /\ Len(last.out.rows) >= 3
    /\ \E i \in 1..(Len(last.out.rows) - 1) : last.out.rows[i] = last.out.rows[i + 1]

\* C2: load_seasons raises the "no data found" error exactly when every
\* year of the range is missing, whatever the projection; with a present
\* year it returns a table (the projection, if any, being one the present
\* files can serve).
C2_EmptyRangeIff ==
    last.op = "load_seasons" =>
        LET P == PresentYears(last.start_year, last.end_year) IN
        /\ IsEmptyRange(last.out) <=> P = {}
        /\ (P # {} /\ Readable(last.start_year, last.end_year, last.columns))
              => last.out.kind = "table"

C2_Witness ==
    /\ last.op = "load_seasons"
    /\ last.start_year < last.end_year
    /\ IsEmptyRange(last.out)
    /\ DOMAIN disk # {}

\* C3: load_season of a year whose file is missing raises a Not-Found error
\* that names the year, the expected file path and the collection command;
\* it returns no table.
C3_NotFoundNamesYearAndPath ==
    (last.op = "load_season" /\ ~Present(last.year)) =>
        /\ last.out.kind = "FileNotFoundError"
        /\ last.out.msg.filepath = <<"statcast_", last.year, ".parquet">>
        /\ last.out.msg.run = "python collector/collect_statcast.py --year "
        /\ last.out.msg.args = <<last.year>>

C3_Witness ==
    /\ last.op = "load_season"
    /\ ~Present(last.year)
    /\ DOMAIN disk # {}
    /\ last.out.kind = "FileNotFoundError"

\* C4: in load_seasons a missing year is skipped, not fatal: the call does
\* not end with a Not-Found error while a year of the range is present, and
\* every present year contributes the rows load_season(year, columns)
\* returns on its own, whichever other years are missing.
C4_SkipNotFatal ==
    last.op = "load_seasons" =>
        LET P == PresentYears(last.start_year, last.end_year) IN
        /\ P # {} => last.out.kind # "FileNotFoundError"
        /\ last.out.kind = "table" =>
              \A y \in P :
                 LET alone == load_season(disk, y, last.columns) IN
                 /\ alone.kind = "table"
                 /\ \A i \in 1..Len(alone.rows) :
                       /\ Offset(last.start_year, y) + i <= Len(last.out.rows)
                       /\ SameCells(last.out.rows[Offset(last.start_year, y) + i],
                                    alone.rows[i])

C4_Witness ==
    /\ last.op = "load_seasons"
    /\ last.out.kind = "table"
    /\ ~Present(last.start_year)
    /\ \E y \in last.start_year..last.end_year : ~Present(y) /\ Present(y + 1)
    /\ \E y \in last.start_year..last.end_year : Present(y) /\ ~Present(y + 1)
                                                 /\ y + 1 <= last.end_year

\* C5: load_season(year, columns=C) of a present year, C being any set of
\* columns of that year's file, returns exactly the columns of C, with the
\* rows of the unprojected load in the same number and order.
C5_ProjectionExact ==
    (/\ last.op = "load_season"
     /\ Present(last.year)
     /\ last.columns.given
     /\ last.columns.names \subseteq FileOf(last.year).columns)
    => /\ last.out.kind = "table"
       /\ last.out.columns = last.columns.names
       /\ Len(last.out.rows) = Len(FileOf(last.year).rows)
       /\ \A i \in 1..Len(last.out.rows) :
             /\ DOMAIN last.out.rows[i] = last.columns.names
             /\ \A c \in last.columns.names :
                   last.out.rows[i][c] = FileOf(last.year).rows[i][c]

\* C6: a projection that names a column a present season file lacks is
\* fatal: load_season raises an error that is neither a table nor a
\* Not-Found, and load_seasons ends with the error of the first such year
\* of its range instead of skipping that year.
C6_SchemaErrorFatal ==
    LET Lacks(y) == /\ Present(y)
                    /\ last.columns.given
                    /\ ~(last.columns.names \subseteq FileOf(y).columns)
    IN
    /\ (last.op = "load_season" /\ Lacks(last.year)) =>
          /\ last.out.kind \notin {"table", "FileNotFoundError"}
          /\ last.out.msg.fields = last.columns.names \ FileOf(last.year).columns
    /\ (last.op = "load_seasons"
          /\ \E y \in last.start_year..last.end_year : Lacks(y)) =>
          LET first == CHOOSE y \in last.start_year..last.end_year :
                          /\ Lacks(y)
                          /\ \A z \in last.start_year..(y - 1) : ~Lacks(z)
          IN
          /\ last.out.kind \notin {"table", "FileNotFoundError"}
          /\ last.out.msg.filepath = <<"statcast_", first, ".parquet">>

C6_Witness ==
    /\ last.op = "load_seasons"
    /\ last.out.kind = "ArrowInvalid"
    /\ \E y \in last.start_year..last.end_year :
          Present(y) /\ last.columns.names \subseteq FileOf(y).columns
    /\ \E y \in last.start_year..last.end_year : ~Present(y)

\* C7 as claimed: the error load_seasons raises when every year of the
\* range is missing is of another kind than the Not-Found error load_season
\* raises for a missing year of that range.
C7_DistinctKind ==
    (last.op = "load_seasons"
        /\ PresentYears(last.start_year, last.end_year) = {}) =>
        \A y \in last.start_year..last.end_year :
            last.out.kind # load_season(disk, y, last.columns).kind

\* C7 amended: the two errors are of the same kind, FileNotFoundError, and
\* differ in their message: the Empty-Range error names the range and the
\* --range command, the single-year error the file path and --year.
C7_SameKindOtherMessage ==
    (last.op = "load_seasons"
        /\ PresentYears(last.start_year, last.end_year) = {}) =>
        /\ last.out.kind = "FileNotFoundError"
        /\ last.out.msg.head = "No data found for years "
        /\ last.out.msg.years = <<last.start_year, last.end_year>>
        /\ last.out.msg.run = "python collector/collect_statcast.py --range "
        /\ last.out.msg.args = <<last.start_year, last.end_year>>
        /\ \A y \in last.start_year..last.end_year :
              LET one == load_season(disk, y, last.columns) IN
              /\ one.kind = last.out.kind
              /\ one.msg.head # last.out.msg.head
              /\ one.msg.run # last.out.msg.run

C7_Witness ==
    /\ last.op = "load_seasons"
    /\ IsEmptyRange(last.out)
    /\ last.start_year = last.end_year
    /\ DOMAIN disk # {}

\* C8: two load_season calls with the same (year, columns), with other
\* loader calls between them and no write to that season's file, return
\* the same outcome.
C8_Idempotent ==
    (earlier.watched /\ earlier.before # << >>) =>
        earlier.before = earlier.recent

C8_Witness ==
    /\ earlier.watched
    /\ earlier.before # << >>
    /\ earlier.gap
    /\ earlier.recent[1].kind = "table"
    /\ last.op = "load_season"
    /\ last.year = earlier.year
    /\ last.columns = earlier.columns

\* C9: load_all(columns) returns what load_seasons(2015, 2025, columns)
\* returns on the same data directory: the same table, and the same
\* Empty-Range error when no season of 2015..2025 is present.
C9_LoadAllIsFullRange ==
    last.op = "load_all" =>
        /\ last.out = load_seasons(disk, 2015, 2025, last.columns)
        /\ PresentYears(2015, 2025) = {} =>
              /\ IsEmptyRange(last.out)
              /\ last.out.msg.args = <<2015, 2025>>
        /\ (PresentYears(2015, 2025) # {} /\ Readable(2015, 2025, last.columns)) =>
              /\ last.out.kind = "table"
              /\ Len(last.out.rows) = RowCount(PresentYears(2015, 2025))

C9_Witness ==
    /\ last.op = "load_all"
    /\ last.out.kind = "table"
    /\ Present(2015)
    /\ Present(2025)
    /\ Len(last.out.rows) = Len(FileOf(2015).rows) + Len(FileOf(2025).rows)

\* C10: for a batted ball with both values present, calculate_barrel is
\* true exactly when exit_velocity >= 98, launch_angle >= 8,
\* launch_angle <= 50, launch_angle >= 26 - (exit_velocity - 98) and
\* launch_angle <= 30 + (exit_velocity - 98), every bound inclusive.
C10_BarrelFormula ==
    (last.op = "calculate_barrel" /\ last.ev # NaN /\ last.la # NaN) =>
        LET ev == last.ev[1]
            la == last.la[1]
        IN  last.out <=>
               /\ ev >= 98 * Scale
               /\ la >= 8 * Scale
               /\ la <= 50 * Scale
               /\ la >= 26 * Scale - (ev - 98 * Scale)
               /\ la <= 30 * Scale + (ev - 98 * Scale)

C10_Witness ==
    /\ last.op = "calculate_barrel"
    /\ last.out
    /\ last.ev = Cell(116 * Scale)
    /\ last.la = Cell(8 * Scale)

\* C11 as claimed: calculate_barrel(ev = 110, la = 45) is true.
C11_Barrel110At45 ==
    (last.op = "calculate_barrel" /\ last.ev = K(110) /\ last.la = K(45)) =>
        last.out

\* C11 amended: calculate_barrel(ev = 110, la = 45) is false; at ev = 110
\* the launch angles that qualify are those from 14 to 42 degrees, and a
\* launch angle of 45 degrees qualifies exactly from ev = 113 on.
C11_WindowAt110 ==
    (last.op = "calculate_barrel" /\ last.ev # NaN /\ last.la # NaN) =>
        /\ (last.ev = K(110) /\ last.la = K(45)) => ~last.out
        /\ last.ev = K(110) =>
              (last.out <=> (last.la[1] >= 14 * Scale /\ last.la[1] <= 42 * Scale))
        /\ last.la = K(45) => (last.out <=> last.ev[1] >= 113 * Scale)

C11_Witness ==
    /\ last.op = "calculate_barrel"
    /\ last.ev = K(110)
    /\ last.la = K(45)
    /\ ~last.out

\* C12: at ev = 98, la = 26 is a barrel and la = 25 is not; no ball under
\* 98 mph is a barrel at any launch angle, and none over 50 degrees is at
\* any exit velocity.
C12_Gates ==
    last.op = "calculate_barrel" =>
        /\ (last.ev = K(98) /\ last.la = K(26)) => last.out
        /\ (last.ev = K(98) /\ last.la = K(25)) => ~last.out
        /\ (last.ev # NaN /\ last.ev[1] < 98 * Scale) => ~last.out
        /\ (last.la # NaN /\ last.la[1] > 50 * Scale) => ~last.out

C12_Witness ==
    /\ last.op = "calculate_barrel"
    /\ last.ev = K(98)
    /\ last.la = K(26)
    /\ last.out

C14_WindowWidens ==
    (last.op = "calculate_barrel" /\ last.ev # NaN /\ last.la # NaN) =>
        LET d == last.ev[1] - 98 * Scale IN
        /\ last.out =>
              \A harder \in ExitVelocities :
                 (harder # NaN /\ harder[1] >= last.ev[1]) =>
                    calculate_barrel(harder, last.la)
        /\ (d >= 0 /\ 26 * Scale - d >= 8 * Scale /\ 30 * Scale + d <= 50 * Scale) =>
              /\ last.out <=> (/\ 26 * Scale - last.la[1] <= d
                               /\ last.la[1] - 30 * Scale <= d)
              /\ last.out = calculate_barrel(last.ev, Cell(56 * Scale - last.la[1]))

C14_Witness ==
    /\ last.op = "calculate_barrel"
    /\ last.out
    /\ last.ev = K(105)
    /\ last.la = K(19)
    /\ calculate_barrel(K(105), K(37))
    /\ ~calculate_barrel(K(104), K(19))

----------------------------------------------------------------------------
(* What a frame holds, counted row by row *)

\* the cell is there and its value is one of `values`
Is(cell, values) == cell # NaN /\ cell[1] \in values

\* the rows of the frame that pass the test
Counted(df, Test(_)) == {i \in 1..Len(df.rows) : Test(df.rows[i])}

\* the frame with only its rows that pass the test, in their order
Only(df, Test(_)) == [df EXCEPT !.rows = SelectSeq(df.rows, Test)]

\* the float returned is n / d
IsQuotient(out, n, d) ==
    out.kind = "float" /\ out.den > 0 /\ out.num * d = n * out.den

\* the float returned is in [0, 1]
InUnitInterval(out) ==
    out.kind = "float" /\ out.den > 0 /\ 0 <= out.num /\ out.num <= out.den

\* the first float is not under the second
NotUnder(a, b) ==
    a.kind = "float" /\ b.kind = "float" /\ a.den > 0 /\ b.den > 0
        /\ a.num * b.den >= b.num * a.den

\* C15: whiff_rate is the number of swinging_strike and
\* swinging_strike_blocked rows over the number of rows with one of the five
\* swing descriptions; rows with a bunt outcome or no description are in
\* neither count, so that leaving them out of the frame changes nothing.
C15_WhiffRate ==
    (last.op = "whiff_rate" /\ "description" \in last.df.columns) =>
        LET whiffs == Counted(last.df, LAMBDA r :
                Is(r.description,
                   {"swinging_strike", "swinging_strike_blocked"}))
            swings == Counted(last.df, LAMBDA r :
                Is(r.description,
                   {"swinging_strike", "swinging_strike_blocked", "foul",
                    "foul_tip", "hit_into_play"}))
        IN  /\ swings # {} =>
                  IsQuotient(last.out, Cardinality(whiffs), Cardinality(swings))
            /\ last.out = whiff_rate(Only(last.df, LAMBDA r :
                  ~(r.description = NaN
                    \/ r.description[1] \in {"foul_bunt", "missed_bunt"})))

C15_Witness ==
    /\ last.op = "whiff_rate"
    /\ last.df.columns = {"description"}
    /\ last.df.rows = << [description |-> Cell("swinging_strike_blocked")],
                         [description |-> Cell("missed_bunt")],
                         [description |-> Cell("foul_tip")] >>
    /\ last.out = Float(1, 2)

\* C16: chase_rate is the number of rows with zone 11, 12, 13 or 14 and a
\* swing description over the number of rows with zone 11, 12, 13 or 14;
\* rows with no zone or a zone in the strike zone are in neither count.
C16_ChaseRate ==
    (last.op = "chase_rate"
        /\ {"zone", "description"} \subseteq last.df.columns) =>
        LET outside == Counted(last.df, LAMBDA r : Is(r.zone, {11, 12, 13, 14}))
            chases == Counted(last.df, LAMBDA r :
                /\ Is(r.zone, {11, 12, 13, 14})
                /\ Is(r.description,
                      {"swinging_strike", "swinging_strike_blocked", "foul",
                       "foul_tip", "hit_into_play"}))
        IN  /\ outside # {} =>
                  IsQuotient(last.out, Cardinality(chases), Cardinality(outside))
            /\ last.out = chase_rate(Only(last.df, LAMBDA r :
                  ~(r.zone = NaN \/ r.zone[1] \in 1..9)))

C16_Witness ==
    /\ last.op = "chase_rate"
    /\ last.df.columns = {"zone", "description"}
    /\ last.df.rows = << [zone |-> Cell(14), description |-> Cell("ball")],
                         [zone |-> NaN, description |-> Cell("hit_into_play")],
                         [zone |-> Cell(11), description |-> Cell("hit_into_play")] >>
    /\ last.out = Float(1, 2)

Reads(op) ==
    CASE op = "whiff_rate" -> {"description"}
      [] op = "chase_rate" -> {"zone", "description"}
      [] op = "zone_rate" -> {"zone"}
      [] op = "hard_hit_rate" -> {"launch_speed"}
      [] op = "sweet_spot_rate" -> {"launch_angle"}
      [] OTHER -> {}

IsSwing(r) ==
    Is(r.description,
       {"swinging_strike", "swinging_strike_blocked", "foul", "foul_tip",
        "hit_into_play"})

Denominator ==
    CASE last.op = "whiff_rate" -> Counted(last.df, IsSwing)
      [] last.op = "chase_rate" ->
            Counted(last.df, LAMBDA r : Is(r.zone, {11, 12, 13, 14}))
      [] last.op = "zone_rate" -> Counted(last.df, LAMBDA r : r.zone # NaN)
      [] last.op = "hard_hit_rate" ->
            Counted(last.df, LAMBDA r : r.launch_speed # NaN)
      [] last.op = "sweet_spot_rate" ->
            Counted(last.df, LAMBDA r : r.launch_angle # NaN)

Numerator ==
    CASE last.op = "whiff_rate" ->
            Counted(last.df, LAMBDA r :
                Is(r.description,
                   {"swinging_strike", "swinging_strike_blocked"}))
      [] last.op = "chase_rate" ->
            Counted(last.df, LAMBDA r :
                Is(r.zone, {11, 12, 13, 14}) /\ IsSwing(r))
      [] last.op = "zone_rate" -> Counted(last.df, LAMBDA r : Is(r.zone, 1..9))
      [] last.op = "hard_hit_rate" ->
            Counted(last.df, LAMBDA r : GE(r.launch_speed, last.threshold))
      [] last.op = "sweet_spot_rate" ->
            Counted(last.df, LAMBDA r :
                /\ GE(r.launch_angle, last.min_angle)
                /\ LE(r.launch_angle, last.max_angle))

RateCall ==
    /\ last.op \in {"whiff_rate", "chase_rate", "zone_rate", "hard_hit_rate",
                    "sweet_spot_rate"}
    /\ Reads(last.op) \subseteq last.df.columns

\* C18: each of the five rates is exactly 0.0 when its denominator counts
\* no row, the frame without rows and the frame whose column is all null
\* included: no NaN of a division by zero and no exception.
C18_ZeroDenominator ==
    (RateCall /\ Denominator = {}) => last.out = Zero

C18_Witness ==
    /\ last.op = "sweet_spot_rate"
    /\ last.df.columns = {"launch_angle"}
    /\ last.df.rows = << [launch_angle |-> NaN], [launch_angle |-> NaN] >>
    /\ last.min_angle = K(8)
    /\ last.max_angle = K(32)
    /\ last.out = Zero

\* C19: whatever the frame and the parameters (min_angle over max_angle
\* included), each of the five rates is in [0, 1], every row its numerator
\* counts being one its denominator counts.
C19_UnitInterval ==
    RateCall =>
        /\ InUnitInterval(last.out)
        /\ Numerator \subseteq Denominator
        /\ Denominator # {} =>
              IsQuotient(last.out, Cardinality(Numerator),
                         Cardinality(Denominator))

C19_Witness ==
    /\ last.op = "sweet_spot_rate"
    /\ last.df.columns = {"launch_angle"}
    /\ last.df.rows = << [launch_angle |-> K(8)], [launch_angle |-> K(32)],
                         [launch_angle |-> NaN] >>
    /\ last.min_angle = K(32)
    /\ last.max_angle = K(8)
    /\ last.out = Float(0, 2)

\* C20: on one frame hard_hit_rate does not rise with the threshold; it is
\* the number of rows with launch_speed >= threshold over the number of
\* rows with a launch_speed.
C20_HardHitMonotone ==
    (last.op = "hard_hit_rate" /\ "launch_speed" \in last.df.columns
        /\ last.threshold # NaN) =>
        LET hard == Counted(last.df, LAMBDA r :
                r.launch_speed # NaN /\ r.launch_speed[1] >= last.threshold[1])
            batted == Counted(last.df, LAMBDA r : r.launch_speed # NaN)
        IN  /\ batted # {} =>
                  IsQuotient(last.out, Cardinality(hard), Cardinality(batted))
            /\ \A t2 \in Thresholds :
                  (t2 # NaN /\ last.threshold[1] <= t2[1]) =>
                      NotUnder(last.out, hard_hit_rate(last.df, t2))

C20_Witness ==
    /\ last.op = "hard_hit_rate"
    /\ last.df.columns = {"launch_speed"}
    /\ last.df.rows = << [launch_speed |-> K(95)], [launch_speed |-> NaN],
                         [launch_speed |-> Cell(95 * Scale - 1)] >>
    /\ last.threshold = Cell(95 * Scale - 1)
    /\ last.out = Float(2, 2)
    /\ hard_hit_rate(last.df, K(95)) = Float(1, 2)

\* the orders the rows of a frame of n rows can be put in
RowOrders(n) == {p \in [1..n -> 1..n] : \A i \in 1..n : \E j \in 1..n : p[j] = i}

Permuted(df, p) == [df EXCEPT !.rows = [i \in 1..Len(df.rows) |-> df.rows[p[i]]]]

\* C21: sweet_spot_rate is the same on every order of the rows of a frame;
\* it is the number of rows with min_angle <= launch_angle <= max_angle over
\* the number of rows with a launch_angle.
C21_SweetSpotAnyOrder ==
    (last.op = "sweet_spot_rate" /\ "launch_angle" \in last.df.columns) =>
        LET sweet == Counted(last.df, LAMBDA r :
                /\ r.launch_angle # NaN
                /\ last.min_angle # NaN
                /\ last.max_angle # NaN
                /\ last.min_angle[1] <= r.launch_angle[1]
                /\ r.launch_angle[1] <= last.max_angle[1])
            batted == Counted(last.df, LAMBDA r : r.launch_angle # NaN)
        IN  /\ \A p \in RowOrders(Len(last.df.rows)) :
                  sweet_spot_rate(Permuted(last.df, p), last.min_angle,
                                  last.max_angle) = last.out
            /\ batted # {} =>
                  IsQuotient(last.out, Cardinality(sweet), Cardinality(batted))

C21_Witness ==
    /\ last.op = "sweet_spot_rate"
    /\ last.df.columns = {"launch_angle"}
    /\ last.df.rows = << [launch_angle |-> Cell(32 * Scale + 1)],
                         [launch_angle |-> NaN],
                         [launch_angle |-> K(32)] >>
    /\ last.min_angle = K(8)
    /\ last.max_angle = K(32)
    /\ last.out = Float(1, 2)
    /\ sweet_spot_rate(Permuted(last.df, <<3, 1, 2>>), K(8), K(32)) = Float(1, 2)

----------------------------------------------------------------------------
(* What a frame of pitches holds, plate appearance by plate appearance *)

\* the (game_pk, at_bat_number) of a row
KeyOf(r) == <<r.game_pk, r.at_bat_number>>

\* the rows of the frame given to the call that belong to the key, in the
\* order they were given
GroupOf(k) == SelectSeq(last.given.rows, LAMBDA r : KeyOf(r) = k)

\* the keys with an event on at least one of their rows
KeysWithEvent ==
    {KeyOf(last.given.rows[i]) :
        i \in {j \in 1..Len(last.given.rows) : last.given.rows[j].events # NaN}}

\* the key whose rows the output row was made of
KeysBehind(row) ==
    {k \in {KeyOf(last.given.rows[i]) : i \in 1..Len(last.given.rows)} :
        pa_key(astype_str(<<k[1]>>), astype_str(<<k[2]>>))[1] = row.pa_key}

Aggregation ==
    /\ last.op = "aggregate_pa_results"
    /\ last.out.kind = "table"

\* C22: the output of aggregate_pa_results has one row for each
\* (game_pk, at_bat_number) with an event and none for any other: no two
\* rows for one key, an event on every row, as many rows as such keys.
C22_OneRowPerFinishedPa ==
    Aggregation =>
        LET rows == last.out.rows IN
        /\ Len(rows) = Cardinality(KeysWithEvent)
        /\ \A n \in 1..Len(rows) :
              /\ rows[n].events # NaN
              /\ \E k \in KeysWithEvent : KeysBehind(rows[n]) = {k}
        /\ \A n \in 1..Len(rows), m \in 1..Len(rows) :
              (KeysBehind(rows[n]) = KeysBehind(rows[m]) \/ rows[n].pa_key = rows[m].pa_key)
                  => n = m
        /\ \A k \in KeysWithEvent :
              \E n \in 1..Len(rows) : KeysBehind(rows[n]) = {k}

C22_Witness ==
    /\ Aggregation
    /\ Len(last.given.rows) = 3
    /\ KeyOf(last.given.rows[1]) = <<Cell(11), Cell(1)>>
    /\ KeyOf(last.given.rows[2]) = <<Cell(1), Cell(11)>>
    /\ KeyOf(last.given.rows[3]) = <<Cell(11), Cell(1)>>
    /\ last.given.rows[1].events = NaN
    /\ last.given.rows[2].events = NaN
    /\ last.given.rows[3].events = Cell(Single)
    /\ Len(last.out.rows) = 1
    /\ last.out.rows[1].game_pk = Cell(11)

\* C23: for each plate appearance the output row holds the event of the row
\* with the highest pitch_number among its rows that have an event, in
\* whatever order the rows were given, the highest pitch_number of its rows
\* and the batter, pitcher, game_pk, game_year, home_team and away_team of
\* the first of its rows.
C23_LastEventInPitchOrder ==
    Aggregation =>
        \A n \in 1..Len(last.out.rows) :
            LET row == last.out.rows[n]
                k == CHOOSE k \in KeysBehind(row) : TRUE
                group == GroupOf(k)
                pitches == {group[i].pitch_number[1] : i \in 1..Len(group)}
                decided == {group[i].pitch_number[1] :
                               i \in {j \in 1..Len(group) : group[j].events # NaN}}
            IN  /\ \E i \in 1..Len(group) :
                      /\ group[i].events # NaN
                      /\ group[i].pitch_number[1] = Max(decided)
                      /\ row.events = group[i].events
                /\ row.pitch_number = Cell(Max(pitches))
                /\ \A c \in {"batter", "pitcher", "game_pk", "game_year",
                             "home_team", "away_team"} : row[c] = group[1][c]

\* the rate is 100 * n / d
IsPercent(out, n, d) ==
    out.kind = "float" /\ out.den > 0 /\ out.num * d = 100 * n * out.den

\* C24: on at least one row, the events held as strings, calculate_rate_stats
\* gives k_pct as 100 times
\* the rows whose events has "strikeout" in it, in any case, over all rows,
\* bb_pct as 100 times the rows whose events is "walk" or "intent_walk" over
\* all rows and hr_pct as 100 times the rows whose events is "home_run" over
\* all rows.
C24_RateStats ==
    (last.op = "calculate_rate_stats" /\ "events" \in last.df.columns
        /\ dtype(last.df, "events") = "object" /\ last.df.rows # << >>) =>
        LET all == Len(last.df.rows)
            k == Counted(last.df, LAMBDA r :
                    Is(r.events, {Strikeout, StrikeoutCapital, StrikeoutDoublePlay}))
            bb == Counted(last.df, LAMBDA r : Is(r.events, {Walk, IntentWalk}))
            hr == Counted(last.df, LAMBDA r : Is(r.events, {HomeRun}))
        IN  /\ last.out.kind = "dict"
            /\ IsPercent(last.out.k_pct, Cardinality(k), all)
            /\ IsPercent(last.out.bb_pct, Cardinality(bb), all)
            /\ IsPercent(last.out.hr_pct, Cardinality(hr), all)

C24_Witness ==
    /\ last.op = "calculate_rate_stats"
    /\ last.df.columns = {"events"}
    /\ last.df.rows = << [events |-> Cell(StrikeoutCapital)],
                         [events |-> Cell(IntentWalk)],
                         [events |-> Cell(StrikeoutDoublePlay)] >>
    /\ last.out.k_pct = Float(200, 3)
    /\ last.out.bb_pct = Float(100, 3)
    /\ last.out.hr_pct = Float(0, 3)

\* C25: on a frame without rows calculate_rate_stats returns k_pct, bb_pct
\* and hr_pct all 0, with no division made and nothing raised.
C25_NoRows ==
    (last.op = "calculate_rate_stats" /\ last.df.rows = << >>) =>
        last.out = [kind |-> "dict", k_pct |-> PyInt(0), bb_pct |-> PyInt(0),
                    hr_pct |-> PyInt(0)]

C25_Witness ==
    /\ last.op = "calculate_rate_stats"
    /\ last.df.columns = {"events"}
    /\ last.df.rows = << >>
    /\ last.out.kind = "dict"
    /\ last.out.k_pct = PyInt(0)

----------------------------------------------------------------------------
(* Calls on the caller's table *)

\* the columns a metric reads
Required(op) ==
    CASE op = "aggregate_pa_results" ->
            {"game_pk", "at_bat_number", "events", "pitch_number", "batter",
             "pitcher", "game_year", "home_team", "away_team"}
      [] op = "calculate_rate_stats" -> {"events"}
      [] OTHER -> Reads(op)

IsRaised(out) == out.kind \in {"KeyError", "AttributeError"}

\* C26: a metric raises only on a table that lacks a column it reads; on a
\* table that has them, missing cells included, it returns.
C26_RaisesOnlyOnMissingColumn ==
    (last.op \in MetricCalls /\ Required(last.op) \subseteq earlier.df.columns)
        => ~IsRaised(last.out)

\* C27: after any calls of the metrics, aggregate_pa_results included, the
\* caller's table has the columns and the rows it had before them.
C27_InputUnchanged ==
    last.op \in MetricCalls => last.df = earlier.df

C27_Witness ==
    /\ last.op = "aggregate_pa_results"
    /\ earlier.calls = 2
    /\ last.out.kind = "table"
    /\ Len(last.out.rows) = 2
    /\ "pa_key" \in last.out.columns
    /\ "pa_key" \notin last.df.columns
    /\ last.df = earlier.df

----------------------------------------------------------------------------
(* The collector and the loader on one data directory *)

IsCollect(call) == call.op \in {"collect_season", "collect_month"}

\* the file a collector call is about
Target(call) ==
    IF call.op = "collect_season" THEN SeasonFile(call.year)
    ELSE MonthFile(call.year, call.month)

\* C28: once collect_season(year) has fetched and saved a supported season,
\* load_season(year) reads the file it wrote and raises no Not-Found; a
\* collect_month call writes no file load_season reads, for any year, so
\* that load_season raises Not-Found after it exactly where it did before.
C28_SeasonFileIsWhatLoaderReads ==
    [][ /\ (last'.op = "collect_season" /\ last'.fetched) =>
              /\ last'.year \in SEASON_DATES
              /\ last'.out = [kind |-> "path", path |-> SeasonFile(last'.year)]
              /\ load_season(disk', last'.year, None) =
                    Returned(disk'[last'.out.path])
        /\ last'.op = "collect_month" =>
              \A year \in AVAILABLE_SEASONS \cup CollectYears :
                 /\ Target(last') # SeasonFile(year)
                 /\ load_season(disk', year, None) = load_season(disk, year, None)
        /\ (last'.op = "load_season" /\ last'.out.kind = "FileNotFoundError") =>
              ~exists(disk, SeasonFile(last'.year))
      ]_vars

C28_Witness ==
    /\ last.op = "load_season"
    /\ last.year = RangeFirst
    /\ last.out.kind = "FileNotFoundError"
    /\ exists(disk, MonthFile(RangeFirst, 4))
    /\ ~exists(disk, SeasonFile(RangeFirst))

\* C29: collect_season and collect_month write over a file that is there
\* only on the answer 'y' or 'Y': on any other answer the directory is left
\* as it was, nothing is fetched and the path of the file is returned; and
\* collect_season of a year outside the supported seasons exits with status
\* 1 with nothing fetched and nothing written.
C29_OverwriteOnlyOnYes ==
    [][ IsCollect(last') =>
          /\ (last'.response # << >> /\ last'.response[1] \notin {"y", "Y"}) =>
                /\ disk' = disk
                /\ ~last'.fetched
                /\ last'.out = [kind |-> "path", path |-> Target(last')]
          /\ (last'.out.kind = "path" /\ exists(disk, Target(last'))) =>
                last'.response # << >>
          /\ disk' # disk =>
                /\ last'.fetched
                /\ \A p \in DOMAIN disk : p # Target(last') => disk'[p] = disk[p]
                /\ DOMAIN disk' = DOMAIN disk \cup {Target(last')}
                /\ exists(disk, Target(last')) => last'.response[1] \in {"y", "Y"}
          /\ (last'.op = "collect_season" /\ last'.year \notin SEASON_DATES) =>
                /\ last'.out = [kind |-> "exit", status |-> 1]
                /\ ~last'.fetched
                /\ disk' = disk
      ]_vars

C29_Witness ==
    /\ last.op = "collect_month"
    /\ last.response = <<"yes">>
    /\ ~last.fetched
    /\ last.out = [kind |-> "path", path |-> MonthFile(RangeFirst, 4)]
    /\ exists(disk, MonthFile(RangeFirst, 4))

\* C30: load_seasons with start_year over end_year loads no season and
\* raises the "No data found" error, whatever files the directory holds.
C30_DescendingRange ==
    (last.op = "load_seasons" /\ last.start_year > last.end_year) =>
        /\ last.out.kind = "FileNotFoundError"
        /\ last.out.msg.head = "No data found for years "
        /\ last.out.msg.years = <<last.start_year, last.end_year>>
        /\ last.out = load_seasons([p \in {} |-> NaN], last.start_year,
                                   last.end_year, last.columns)

C30_Witness ==
    /\ last.op = "load_seasons"
    /\ last.start_year = RangeStop - 1
    /\ last.end_year = RangeFirst
    /\ exists(disk, SeasonFile(RangeFirst))
    /\ exists(disk, SeasonFile(RangeStop - 1))
    /\ last.out.kind = "FileNotFoundError"

====
